---- MODULE Spec2Model ----
(***************************************************************************)
(* A model of brittle_wit/oauth.py: the OAuth 1.0a request signing of      *)
(* generate_req_headers, the helpers it is made of, and the credential     *)
(* value objects AppCredentials and ClientCredentials.                     *)
(*                                                                         *)
(* A Python str is the sequence of its characters, each a one-character    *)
(* string (or the name of its code point).  A Python value is a record     *)
(* [t, s, n]: t is its type, s its characters (str, bytes), n its number   *)
(* (int, bool).  A dict is the sequence of its entries [k, v] in insertion *)
(* order, its keys distinct.  An exception is the name of its type.        *)
(*                                                                         *)
(* Three specifications: Spec calls generate_req_headers, SpecCred         *)
(* compares and converts credentials, SpecParams applies                   *)
(* _generate_param_string to mappings.  Long strings are put together by   *)
(* halving (Concat, SumRange) so that no evaluation nests deeply.          *)
(***************************************************************************)
EXTENDS Integers, Sequences, FiniteSets, TLC

\* ------------------------------------------------------------ characters

\* The printable ASCII characters, code points 32 to 126, in order.
ASCII ==
    <<" ", "!", "\"", "#", "$", "%", "&", "'", "(", ")", "*", "+", ",", "-", ".", "/", "0", "1", "2", "3", "4", "5", "6", "7", "8", "9", ":", ";", "<", "=", ">", "?", "@", "A", "B", "C", "D", "E", "F", "G", "H", "I", "J", "K", "L", "M", "N", "O", "P", "Q", "R", "S", "T", "U", "V", "W", "X", "Y", "Z", "[", "\\", "]", "^", "_", "U+0060", "a", "b", "c", "d", "e", "f", "g", "h", "i", "j", "k", "l", "m", "n", "o", "p", "q", "r", "s", "t", "u", "v", "w", "x", "y", "z", "{", "|", "}", "~">>

\* One character outside ASCII (U+00E9) and the newline b2a_base64 appends.
EAcute == "U+00E9"
Newline == "\n"

Chars == {ASCII[i] : i \in 1..Len(ASCII)} \cup {EAcute, Newline}

\* ord(c)
CodePoint ==
    [c \in Chars |->
        IF c = EAcute THEN 233
        ELSE IF c = Newline THEN 10
        ELSE 31 + (CHOOSE i \in 1..Len(ASCII) : ASCII[i] = c)]

\* chr(n) for a printable ASCII code point
Chr(n) == ASCII[n - 31]

\* str.upper() on one character, then on a string
UpperChar(c) ==
    IF CodePoint[c] >= 97 /\ CodePoint[c] <= 122 THEN Chr(CodePoint[c] - 32)
    ELSE IF c = EAcute THEN "U+00C9"
    ELSE c

Upper(s) == [i \in 1..Len(s) |-> UpperChar(s[i])]

\* str.encode('ascii') raises UnicodeEncodeError on a character above 127
IsAscii(s) == \A i \in 1..Len(s) : s[i] \in Chars /\ CodePoint[s[i]] < 128

\* the UTF-8 bytes of one character (code points below 2048)
Utf8(c) ==
    IF CodePoint[c] < 128 THEN <<CodePoint[c]>>
    ELSE <<192 + (CodePoint[c] \div 64), 128 + (CodePoint[c] % 64)>>

\* str < str: Python compares strings by code point, a proper prefix first
StrLess(a, b) ==
    LET n == IF Len(a) < Len(b) THEN Len(a) ELSE Len(b)
        D == {i \in 1..n : a[i] # b[i]}
    IN  IF D = {} THEN Len(a) < Len(b)
        ELSE LET i == CHOOSE i \in D : \A j \in D : i <= j
             IN  CodePoint[a[i]] < CodePoint[b[i]]

\* the concatenation of parts[lo..hi], halving the range
RECURSIVE Concat(_, _, _)
Concat(parts, lo, hi) ==
    IF lo > hi THEN <<>>
    ELSE IF lo = hi THEN parts[lo]
    ELSE LET mid == (lo + hi) \div 2
             left == Concat(parts, lo, mid)
             right == Concat(parts, mid + 1, hi)
         IN  left \o right

\* sep.join(parts)
Join(sep, parts) ==
    LET n == Len(parts)
        all == [i \in 1..(2 * n - 1) |-> IF i % 2 = 1 THEN parts[(i + 1) \div 2] ELSE sep]
    IN  Concat(all, 1, 2 * n - 1)

\* ---------------------------------------------------------------- values

PyStr(s) == [t |-> "str", s |-> s, n |-> 0]
PyInt(n) == [t |-> "int", s |-> <<>>, n |-> n]
PyBool(b) == [t |-> "bool", s |-> <<>>, n |-> IF b THEN 1 ELSE 0]
PyBytes(s) == [t |-> "bytes", s |-> s, n |-> 0]
PyNone == [t |-> "none", s |-> <<>>, n |-> 0]

\* str(n) for an int
RECURSIVE Digits(_)
Digits(n) ==
    IF n < 10 THEN <<Chr(48 + n)>>
    ELSE Digits(n \div 10) \o <<Chr(48 + (n % 10))>>

IntToStr(n) == IF n < 0 THEN <<"-">> \o Digits(0 - n) ELSE Digits(n)

\* ------------------------------------------------------- percent encoding

HexDigits == <<"0", "1", "2", "3", "4", "5", "6", "7", "8", "9", "A", "B", "C", "D", "E", "F">>

\* the characters urllib's quote never escapes; safe='' adds none
Unreserved ==
    {ASCII[i] : i \in 1..Len(ASCII)} \cap
    { c \in Chars :
        \/ CodePoint[c] >= 48 /\ CodePoint[c] <= 57
        \/ CodePoint[c] >= 65 /\ CodePoint[c] <= 90
        \/ CodePoint[c] >= 97 /\ CodePoint[c] <= 122
        \/ c \in {"-", ".", "_", "~"} }

PercentByte(b) == <<"%", HexDigits[(b \div 16) + 1], HexDigits[(b % 16) + 1]>>

QuoteChar(c) ==
    IF c \in Unreserved THEN <<c>>
    ELSE LET bytes == Utf8(c)
             parts == [i \in 1..Len(bytes) |-> PercentByte(bytes[i])]
         IN  Concat(parts, 1, Len(bytes))

\* urllib.parse.quote(s, safe='') on the characters of a str or bytes
UrllibQuote(s) ==
    LET parts == [i \in 1..Len(s) |-> QuoteChar(s[i])]
    IN  Concat(parts, 1, Len(s))

QuoteRaisesOnEmpty(v) == v.t = "none" \/ (v.t = "str" /\ v.s = <<>>)

\* _quote raises TypeError (from quote_from_bytes) on a value that is no
\* str, bytes, int, float or bool
QuoteRaises(v) == v.t = "none"

\* _quote(s): an int is written in decimal, a bool as true or false
_quote(v) ==
    LET s == IF v.t = "int" THEN IntToStr(v.n)
             ELSE IF v.t = "bool" THEN (IF v.n = 1 THEN <<"t", "r", "u", "e">> ELSE <<"f", "a", "l", "s", "e">>)
             ELSE v.s
    IN  UrllibQuote(s)

\* ----------------------------------------------------------------- dicts

HasKey(d, k) == \E i \in 1..Len(d) : d[i].k = k

DictGet(d, k) == d[CHOOSE i \in 1..Len(d) : d[i].k = k].v

\* d[k] = v: a key already there keeps its place
DictSet(d, k, v) ==
    IF HasKey(d, k)
    THEN [i \in 1..Len(d) |-> IF d[i].k = k THEN [k |-> k, v |-> v] ELSE d[i]]
    ELSE Append(d, [k |-> k, v |-> v])

\* d.update(e), and {**d, **e}
RECURSIVE DictUpdate(_, _)
DictUpdate(d, e) ==
    IF e = <<>> THEN d
    ELSE LET d1 == DictSet(d, e[1].k, e[1].v) IN DictUpdate(d1, Tail(e))

\* sorted(keys) for str keys
RECURSIVE Insert(_, _)
Insert(k, ks) ==
    IF ks = <<>> THEN <<k>>
    ELSE IF StrLess(k, ks[1]) THEN <<k>> \o ks
    ELSE LET rest == Insert(k, Tail(ks)) IN <<ks[1]>> \o rest

RECURSIVE Sorted(_)
Sorted(ks) ==
    IF ks = <<>> THEN <<>>
    ELSE LET front == Sorted(SubSeq(ks, 1, Len(ks) - 1))
         IN  Insert(ks[Len(ks)], front)

\* ------------------------------------------------------ nonce, timestamp

ALPHANUMERIC == <<"A", "B", "C", "D", "E", "F", "G", "H", "I", "J", "K", "L", "M", "N", "O", "P", "Q", "R", "S", "T", "U", "V", "W", "X", "Y", "Z", "a", "b", "c", "d", "e", "f", "g", "h", "i", "j", "k", "l", "m", "n", "o", "p", "q", "r", "s", "t", "u", "v", "w", "x", "y", "z", "0", "1", "2", "3", "4", "5", "6", "7", "8", "9">>

\* the default length of a nonce
NonceLength == 42

\* _generate_nonce(): rnd[i] is the index random.choice draws at step i
_generate_nonce(rnd) == [i \in 1..NonceLength |-> ALPHANUMERIC[rnd[i]]]

\* _generate_timestamp(): int() drops the fraction of time.time()
_generate_timestamp(now) == now.sec

\* ---------------------------------------------------------- canonicalizer

\* the dict comprehension of _generate_param_string: a later entry whose
\* encoded key is already there replaces that entry's value
RECURSIVE QuotedDict(_, _)
QuotedDict(d, params) ==
    IF params = <<>> THEN d
    ELSE LET k == _quote(params[1].k)
             v == _quote(params[1].v)
             d1 == DictSet(d, k, v)
         IN  QuotedDict(d1, Tail(params))

ParamStringRaises(params) ==
    \E i \in 1..Len(params) : QuoteRaises(params[i].k) \/ QuoteRaises(params[i].v)

_generate_param_string(params) ==
    LET d == QuotedDict(<<>>, params)
        ks == Sorted([i \in 1..Len(d) |-> d[i].k])
        pairs == [i \in 1..Len(ks) |-> ks[i] \o <<"=">> \o DictGet(d, ks[i])]
    IN  Join(<<"&">>, pairs)

_generate_sig_base_string(method, base_url, param_string) ==
    LET parts == <<Upper(method), _quote(base_url), _quote(PyStr(param_string))>>
    IN  Join(<<"&">>, parts)

\* ------------------------------------------------------------------ signer

_generate_signing_key(consumer_secret, oauth_token_secret) ==
    _quote(consumer_secret) \o <<"&">> \o _quote(oauth_token_secret)

\* the sum of f[lo..hi], halving the range
RECURSIVE SumRange(_, _, _)
SumRange(f, lo, hi) ==
    IF lo > hi THEN 0
    ELSE IF lo = hi THEN f[lo]
    ELSE LET mid == (lo + hi) \div 2
         IN  SumRange(f, lo, mid) + SumRange(f, mid + 1, hi)

\* a position-weighted 16-bit checksum of a byte string
Checksum(bytes) ==
    LET f == [i \in 1..Len(bytes) |-> CodePoint[bytes[i]] * (1 + (i % 251))]
    IN  SumRange(f, 1, Len(bytes)) % 65536

\* HMAC-SHA1 stands as a 16-bit keyed checksum of the key and message bytes:
\* a function of both, as the digest is; its 20 bytes are 2 here.
HmacDigest(key, msg) ==
    LET h == (Checksum(key) * 31 + Checksum(msg) + 7 * Len(key)) % 65536
    IN  <<h \div 256, h % 256>>

Base64Alphabet == <<"A", "B", "C", "D", "E", "F", "G", "H", "I", "J", "K", "L", "M", "N", "O", "P", "Q", "R", "S", "T", "U", "V", "W", "X", "Y", "Z", "a", "b", "c", "d", "e", "f", "g", "h", "i", "j", "k", "l", "m", "n", "o", "p", "q", "r", "s", "t", "u", "v", "w", "x", "y", "z", "0", "1", "2", "3", "4", "5", "6", "7", "8", "9", "+", "/">>

\* binascii.b2a_base64 of two bytes: three digits, one pad, a newline
b2a_base64(b) ==
    << Base64Alphabet[(b[1] \div 4) + 1],
       Base64Alphabet[((b[1] % 4) * 16 + (b[2] \div 16)) + 1],
       Base64Alphabet[((b[2] % 16) * 4) + 1],
       "=", Newline >>

\* .encode('ascii') of either argument raises UnicodeEncodeError
SignatureRaises(sig_base_string, signing_key) ==
    ~IsAscii(signing_key) \/ ~IsAscii(sig_base_string)

\* _generate_signature: the base64 text less its last byte, as bytes
_generate_signature(sig_base_string, signing_key) ==
    LET b64 == b2a_base64(HmacDigest(signing_key, sig_base_string))
    IN  PyBytes(SubSeq(b64, 1, Len(b64) - 1))

\* ------------------------------------------------------- header assembler

HeaderStringInsertionOrder(params) ==
    LET pairs == [i \in 1..Len(params) |->
                    params[i].k.s \o <<"=", "\"">> \o _quote(params[i].v) \o <<"\"">>]
    IN  <<"O", "A", "u", "t", "h", " ">> \o Join(<<",", " ">>, pairs)

HeaderStringRaises(params) == \E i \in 1..Len(params) : QuoteRaises(params[i].v)

_generate_header_string(params) ==
    LET ks == Sorted([i \in 1..Len(params) |-> params[i].k.s])
        pairs == [i \in 1..Len(ks) |->
                    ks[i] \o <<"=", "\"">> \o _quote(DictGet(params, PyStr(ks[i]))) \o <<"\"">>]
    IN  <<"O", "A", "u", "t", "h", " ">> \o Join(<<",", " ">>, pairs)

USER_AGENT == <<"B", "r", "i", "t", "t", "l", "e", "W", "i", "t", "/">> \o <<"__version__">>

Entry(k, v) == [k |-> PyStr(k), v |-> v]

\* the six entries generate_req_headers starts from
BaseOAuth(app_cred, client_cred, rnd, now) ==
    << Entry(<<"o", "a", "u", "t", "h", "_", "c", "o", "n", "s", "u", "m", "e", "r", "_", "k", "e", "y">>, app_cred.key),
       Entry(<<"o", "a", "u", "t", "h", "_", "n", "o", "n", "c", "e">>, PyStr(_generate_nonce(rnd))),
       Entry(<<"o", "a", "u", "t", "h", "_", "s", "i", "g", "n", "a", "t", "u", "r", "e", "_", "m", "e", "t", "h", "o", "d">>, PyStr(<<"H", "M", "A", "C", "-", "S", "H", "A", "1">>)),
       Entry(<<"o", "a", "u", "t", "h", "_", "t", "i", "m", "e", "s", "t", "a", "m", "p">>, PyStr(IntToStr(_generate_timestamp(now)))),
       Entry(<<"o", "a", "u", "t", "h", "_", "t", "o", "k", "e", "n">>, client_cred.token),
       Entry(<<"o", "a", "u", "t", "h", "_", "v", "e", "r", "s", "i", "o", "n">>, PyStr(<<"1", ".", "0">>)) >>

RECURSIVE SetDefaults(_, _)
SetDefaults(d, e) ==
    IF e = <<>> THEN d
    ELSE LET d1 == IF HasKey(d, e[1].k) THEN d ELSE Append(d, e[1])
         IN  SetDefaults(d1, Tail(e))

ApplyOverridesKeepBase(oauth_d, overrides) == SetDefaults(oauth_d, overrides)

\* if overrides: oauth_d.update(overrides)
ApplyOverrides(oauth_d, overrides) ==
    IF overrides # <<>> THEN DictUpdate(oauth_d, overrides) ELSE oauth_d

\* {**oauth_d, **twitter_req.params}
MergeParams(oauth_d, params) == DictUpdate(oauth_d, params)

HeaderDictMerged(oauth_d, merged) == merged

\* the dict the signature goes into and the header is built from: oauth_d,
\* not the merged dict that was signed
HeaderDict(oauth_d, merged) == oauth_d

NoHeaders == [Authorization |-> <<>>, UserAgent |-> <<>>]

\* What a call leaves: raised is "" when it returns, else the exception that
\* ends it, and then the fields not yet computed are empty.  signed_d is
\* oauth_d as the parameter string saw it.
Raise(exception, signed_d, merged, param_string, sig_base_string, signing_key) ==
    [ raised |-> exception,
      signed_d |-> signed_d,
      merged |-> merged,
      param_string |-> param_string,
      sig_base_string |-> sig_base_string,
      signing_key |-> signing_key,
      oauth_d |-> signed_d,
      headers |-> NoHeaders ]

\* generate_req_headers, lines 121 to 125: the signature goes into oauth_d
\* and the headers are built
BuildHeaders(signed_d, merged, param_string, sig_base_string, signing_key) ==
    LET signature == _generate_signature(sig_base_string, signing_key)
        oauth_d == DictSet(HeaderDict(signed_d, merged), PyStr(<<"o", "a", "u", "t", "h", "_", "s", "i", "g", "n", "a", "t", "u", "r", "e">>), signature)
        failed == Raise("TypeError", signed_d, merged, param_string, sig_base_string, signing_key)
    IN  IF HeaderStringRaises(oauth_d)
        THEN [failed EXCEPT !.oauth_d = oauth_d]
        ELSE [failed EXCEPT
                !.raised = "",
                !.oauth_d = oauth_d,
                !.headers = [Authorization |-> _generate_header_string(oauth_d),
                             UserAgent |-> USER_AGENT]]

\* generate_req_headers, lines 120 to 122: the signing key and the signature
Sign(app_cred, client_cred, signed_d, merged, param_string, sig_base_string) ==
    IF QuoteRaises(app_cred.secret) \/ QuoteRaises(client_cred.secret)
    THEN Raise("TypeError", signed_d, merged, param_string, sig_base_string, <<>>)
    ELSE LET signing_key == _generate_signing_key(app_cred.secret, client_cred.secret)
         IN  IF SignatureRaises(sig_base_string, signing_key)
             THEN Raise("UnicodeEncodeError", signed_d, merged, param_string,
                        sig_base_string, signing_key)
             ELSE BuildHeaders(signed_d, merged, param_string, sig_base_string, signing_key)

\* generate_req_headers, lines 116 to 119: the parameter string over the
\* merged dict and the signature base string
Canonicalize(twitter_req, app_cred, client_cred, signed_d) ==
    LET merged == MergeParams(signed_d, twitter_req.params)
    IN  IF ParamStringRaises(merged)
        THEN Raise("TypeError", signed_d, merged, <<>>, <<>>, <<>>)
        ELSE LET param_string == _generate_param_string(merged)
             IN  IF QuoteRaises(twitter_req.url)
                 THEN Raise("TypeError", signed_d, merged, param_string, <<>>, <<>>)
                 ELSE LET sig_base_string ==
                              _generate_sig_base_string(twitter_req.method,
                                                        twitter_req.url, param_string)
                      IN  Sign(app_cred, client_cred, signed_d, merged,
                               param_string, sig_base_string)

\* generate_req_headers: rnd is what random.choice draws, now what
\* time.time() reads
generate_req_headers(twitter_req, app_cred, client_cred, overrides, rnd, now) ==
    LET signed_d == ApplyOverrides(BaseOAuth(app_cred, client_cred, rnd, now), overrides)
    IN  Canonicalize(twitter_req, app_cred, client_cred, signed_d)

NotCalled ==
    [ raised |-> "not called", signed_d |-> <<>>, merged |-> <<>>,
      param_string |-> <<>>, sig_base_string |-> <<>>, signing_key |-> <<>>,
      oauth_d |-> <<>>, headers |-> NoHeaders ]

\* ------------------------------------------------------------ credentials

\* AppCredentials(key, secret)
AppCredentials(key, secret) == [key |-> key, secret |-> secret]

\* hash() of a tuple or an int: a function of the value hashed
PyHash(v) == <<"hash", v>>

AppCredentials__hash__(self) == PyHash(<<self.key, self.secret>>)

AppCredentials__eq__(self, other) ==
    self.key = self.key /\ self.secret = other.secret

AppCredentials__ne__(self, other) == ~AppCredentials__eq__(self, other)

\* ClientCredentials(user_id, token, secret)
ClientCredentials(user_id, token, secret) ==
    [user_id |-> user_id, token |-> token, secret |-> secret]

as_dict(self) ==
    << Entry(<<"u", "s", "e", "r", "_", "i", "d">>, self.user_id),
       Entry(<<"t", "o", "k", "e", "n">>, self.token),
       Entry(<<"s", "e", "c", "r", "e", "t">>, self.secret) >>

from_dict_swapped(d) ==
    ClientCredentials(DictGet(d, PyStr(<<"u", "s", "e", "r", "_", "i", "d">>)),
                      DictGet(d, PyStr(<<"s", "e", "c", "r", "e", "t">>)),
                      DictGet(d, PyStr(<<"t", "o", "k", "e", "n">>)))

from_dict(d) ==
    ClientCredentials(DictGet(d, PyStr(<<"u", "s", "e", "r", "_", "i", "d">>)),
                      DictGet(d, PyStr(<<"t", "o", "k", "e", "n">>)),
                      DictGet(d, PyStr(<<"s", "e", "c", "r", "e", "t">>)))

ClientCredentials__hash__(self) == PyHash(self.user_id)

ClientCredentialsEqAllFields(self, other) == self = other

ClientCredentials__eq__(self, other) == self.user_id = other.user_id

ClientCredentials__ne__(self, other) == ~ClientCredentials__eq__(self, other)

\* user ids are ints here, and int < int is the order of the numbers
ClientCredentials__lt__(self, other) == self.user_id.n < other.user_id.n

\* what functools.total_ordering derives from __lt__ and __eq__
ClientCredentials__gt__(self, other) ==
    ~ClientCredentials__lt__(self, other) /\ ClientCredentials__ne__(self, other)

ClientCredentials__le__(self, other) ==
    ClientCredentials__lt__(self, other) \/ ClientCredentials__eq__(self, other)

ClientCredentials__ge__(self, other) == ~ClientCredentials__lt__(self, other)

\* ----------------------------------------------------------------- bounds

\* calls of generate_req_headers made with one set of arguments
MaxCalls == 2

\* user ids run from 1 to MaxUserId
MaxUserId == 3

\* entries of a mapping handed to _generate_param_string
MaxParams == 3

\* ----------------------------------------------------------------- inputs

\* what random.choice draws in one call, as indices into ALPHANUMERIC
RandomDraws ==
    { [i \in 1..NonceLength |-> 1 + ((i * 7) % 62)],
      [i \in 1..NonceLength |-> 1 + ((i * 11 + 5) % 62)] }

\* readings of time.time()
Clock == {[sec |-> 1793817953, frac |-> 250], [sec |-> 1793817954, frac |-> 0]}

Methods == {<<"g", "e", "t">>, <<"g", EAcute, "t">>}

Urls == {PyStr(<<"h", "t", "t", "p", "s", ":", "/", "/", "x", ".", "i", "o", "/", "u">>)}

ParamChoices ==
    { <<>>,
      <<Entry(<<"s", "t", "a", "t", "u", "s">>, PyStr(<<"a", " ", "b", "/">>))>>,
      <<Entry(<<"c", "o", "u", "n", "t">>, PyInt(5)), Entry(<<"t", "r", "i", "m">>, PyBool(TRUE))>>,
      <<Entry(<<"o", "a", "u", "t", "h", "_", "n", "o", "n", "c", "e">>, PyStr(<<"X">>))>>,
      <<Entry(<<"o", "a", "u", "t", "h", "_", "t", "i", "m", "e", "s", "t", "a", "m", "p">>, PyInt(7))>>,
      <<Entry(<<"o", "a", "u", "t", "h", "_", "s", "i", "g", "n", "a", "t", "u", "r", "e">>, PyStr(<<"f", "o", "r", "g", "e", "d">>))>>,
      <<Entry(<<"o", "a", "u", "t", "h", "_", "c", "a", "l", "l", "b", "a", "c", "k">>, PyStr(<<"c", "b">>))>>,
      <<Entry(<<"q">>, PyNone)>> }

OverrideChoices ==
    { <<>>,
      <<Entry(<<"o", "a", "u", "t", "h", "_", "n", "o", "n", "c", "e">>, PyStr(<<"N", "0">>)), Entry(<<"o", "a", "u", "t", "h", "_", "t", "i", "m", "e", "s", "t", "a", "m", "p">>, PyStr(<<"5">>))>>,
      <<Entry(<<"o", "a", "u", "t", "h", "_", "n", "o", "n", "c", "e">>, PyStr(<<"N", "0">>))>>,
      <<Entry(<<"o", "a", "u", "t", "h", "_", "s", "i", "g", "n", "a", "t", "u", "r", "e">>, PyStr(<<"s">>))>>,
      <<Entry(<<"r", "e", "a", "l", "m">>, PyStr(<<"a", "\"", "b", ",", " ", "c">>))>>,
      <<Entry(<<"o", "a", "u", "t", "h", "_", "s", "i", "g", "n", "a", "t", "u", "r", "e", "_", "m", "e", "t", "h", "o", "d">>, PyStr(<<"P", "L", "A", "I", "N", "T", "E", "X", "T">>))>>,
      <<Entry(<<"o", "a", "u", "t", "h", "_", "c", "a", "l", "l", "b", "a", "c", "k">>, PyNone)>> }

AppKeys == {PyStr(<<"k", "\"", "1">>), PyStr(<<"k", "2">>)}
AppSecrets == {PyStr(<<"s", " ", "1">>), PyStr(<<"s", "2">>)}
Tokens == {PyStr(<<"t", "-", "1">>), PyStr(<<"t", "2">>)}
TokenSecrets == {PyStr(<<"x", "1">>), PyStr(<<"x", "/", "2">>)}
UserIds == {PyInt(i) : i \in 1..MaxUserId}

\* the credentials generate_req_headers is called with: a whole pair, the
\* pairs with one field empty, and one with a field that is None
SigningCreds ==
    LET app == AppCredentials(PyStr(<<"k", "\"", "1">>), PyStr(<<"s", " ", "1">>))
        client == ClientCredentials(PyInt(1), PyStr(<<"t", "-", "1">>), PyStr(<<"x", "/", "2">>))
    IN  { <<app, client>>,
          <<AppCredentials(PyStr(<<>>), PyStr(<<"s", " ", "1">>)), client>>,
          <<AppCredentials(PyStr(<<"k", "\"", "1">>), PyStr(<<>>)), client>>,
          <<AppCredentials(PyNone, PyStr(<<"s", " ", "1">>)), client>>,
          <<app, ClientCredentials(PyInt(1), PyStr(<<>>), PyStr(<<"x", "/", "2">>))>>,
          <<app, ClientCredentials(PyInt(1), PyStr(<<"t", "-", "1">>), PyStr(<<>>))>> }

AllAppCreds == {AppCredentials(k, s) : k \in AppKeys, s \in AppSecrets}

AllClientCreds ==
    {ClientCredentials(u, t, s) : u \in UserIds, t \in Tokens, s \in TokenSecrets}

ParamKeys == {PyStr(<<"-">>), PyStr(<<"/">>), PyStr(<<"a">>), PyStr(<<"1">>), PyInt(1)}
ParamValues == {PyStr(<<"x", " ", "y">>), PyInt(2)}

\* the dicts of at most MaxParams entries over ParamKeys and ParamValues
ParamMappings ==
    UNION { { d \in [1..n -> [k : ParamKeys, v : ParamValues]] :
                \A i, j \in 1..n : i # j => d[i].k # d[j].k } : n \in 0..MaxParams }

\* the same mapping in every insertion order
Reorderings(d) ==
    { [i \in 1..Len(d) |-> d[p[i]]] :
        p \in {q \in [1..Len(d) -> 1..Len(d)] : \A i, j \in 1..Len(d) : i # j => q[i] # q[j]} }

\* ------------------------------------------------------------------ state

VARIABLES
    twitter_req,   \* the request generate_req_headers is called with
    app_cred,      \* an AppCredentials
    client_cred,   \* a ClientCredentials
    overrides,     \* the keyword arguments of generate_req_headers
    rnd,           \* what random.choice drew in the last call
    now,           \* what time.time() read in the last call
    calls,         \* calls of generate_req_headers made so far
    env_changed,   \* whether the last call drew or read otherwise than the one before
    ret,           \* the last call's result
    other_app,     \* a second AppCredentials, compared with app_cred
    other_client,  \* a second ClientCredentials, compared with client_cred
    app_cmp,       \* the results of comparing the AppCredentials
    client_cmp,    \* the results of comparing the ClientCredentials
    saved,         \* client_cred.as_dict, once taken
    loaded,        \* ClientCredentials.from_dict(saved), once built
    params,        \* a mapping handed to _generate_param_string
    pstr           \* its parameter strings, in two insertion orders

vars ==
    << twitter_req, app_cred, client_cred, overrides, rnd, now, calls, env_changed, ret,
       other_app, other_client, app_cmp, client_cmp, saved, loaded, params, pstr >>

signing_vars == <<twitter_req, overrides, rnd, now, calls, env_changed, ret>>
cred_vars == <<other_app, other_client, app_cmp, client_cmp, saved, loaded>>
param_vars == <<params, pstr>>

NoAppCmp == [done |-> FALSE, eq |-> FALSE, ne |-> FALSE, same_hash |-> FALSE]

NoClientCmp ==
    [ done |-> FALSE, eq |-> FALSE, ne |-> FALSE, lt |-> FALSE, gt |-> FALSE,
      le |-> FALSE, ge |-> FALSE, lt_rev |-> FALSE, same_hash |-> FALSE ]

NoDict == [done |-> FALSE, d |-> <<>>]
NoCred == [done |-> FALSE, cred |-> ClientCredentials(PyNone, PyNone, PyNone)]
NoParamStrings == [done |-> FALSE, reordered |-> <<>>, a |-> <<>>, b |-> <<>>]
NoRequest == [method |-> <<>>, url |-> PyNone, params |-> <<>>]
NoReading == [sec |-> 0, frac |-> 0]

SigningIdle ==
    /\ twitter_req = NoRequest /\ overrides = <<>>
    /\ rnd = <<>> /\ now = NoReading /\ calls = 0 /\ env_changed = FALSE
    /\ ret = NotCalled

CredIdle ==
    /\ other_app = AppCredentials(PyNone, PyNone)
    /\ other_client = ClientCredentials(PyNone, PyNone, PyNone)
    /\ app_cmp = NoAppCmp /\ client_cmp = NoClientCmp
    /\ saved = NoDict /\ loaded = NoCred

ParamIdle == params = <<>> /\ pstr = NoParamStrings

\* ------------------------------------------- signing: generate_req_headers

Init ==
    /\ twitter_req \in [method : Methods, url : Urls, params : ParamChoices]
    /\ \E c \in SigningCreds : app_cred = c[1] /\ client_cred = c[2]
    /\ overrides \in OverrideChoices
    /\ rnd = <<>> /\ now = NoReading /\ calls = 0 /\ env_changed = FALSE
    /\ ret = NotCalled
    /\ CredIdle /\ ParamIdle

\* one call: the random source and the clock give what they give
GenerateReqHeaders ==
    /\ calls < MaxCalls
    /\ \E r \in RandomDraws, t \in Clock :
        /\ rnd' = r
        /\ now' = t
        /\ env_changed' = (calls > 0 /\ (r # rnd \/ t # now))
        /\ ret' = generate_req_headers(twitter_req, app_cred, client_cred, overrides, r, t)
    /\ calls' = calls + 1
    /\ UNCHANGED <<twitter_req, app_cred, client_cred, overrides>>
    /\ UNCHANGED cred_vars /\ UNCHANGED param_vars

Next == GenerateReqHeaders

Spec == Init /\ [][Next]_vars

\* ------------------------------------------------- credentials: comparisons

InitCred ==
    /\ app_cred \in AllAppCreds /\ other_app \in AllAppCreds
    /\ client_cred \in AllClientCreds /\ other_client \in AllClientCreds
    /\ app_cmp = NoAppCmp /\ client_cmp = NoClientCmp
    /\ saved = NoDict /\ loaded = NoCred
    /\ SigningIdle /\ ParamIdle

\* app_cred == other_app, !=, and both hashes
AppCompare ==
    /\ app_cmp' =
         [ done |-> TRUE,
           eq |-> AppCredentials__eq__(app_cred, other_app),
           ne |-> AppCredentials__ne__(app_cred, other_app),
           same_hash |-> AppCredentials__hash__(app_cred) = AppCredentials__hash__(other_app) ]
    /\ UNCHANGED <<app_cred, client_cred, other_app, other_client, client_cmp, saved, loaded>>
    /\ UNCHANGED signing_vars /\ UNCHANGED param_vars

\* client_cred against other_client: ==, !=, the four orders, the hashes
ClientCompare ==
    /\ client_cmp' =
         [ done |-> TRUE,
           eq |-> ClientCredentials__eq__(client_cred, other_client),
           ne |-> ClientCredentials__ne__(client_cred, other_client),
           lt |-> ClientCredentials__lt__(client_cred, other_client),
           gt |-> ClientCredentials__gt__(client_cred, other_client),
           le |-> ClientCredentials__le__(client_cred, other_client),
           ge |-> ClientCredentials__ge__(client_cred, other_client),
           lt_rev |-> ClientCredentials__lt__(other_client, client_cred),
           same_hash |-> ClientCredentials__hash__(client_cred)
                           = ClientCredentials__hash__(other_client) ]
    /\ UNCHANGED <<app_cred, client_cred, other_app, other_client, app_cmp, saved, loaded>>
    /\ UNCHANGED signing_vars /\ UNCHANGED param_vars

\* client_cred.as_dict
AsDict ==
    /\ saved' = [done |-> TRUE, d |-> as_dict(client_cred)]
    /\ UNCHANGED <<app_cred, client_cred, other_app, other_client, app_cmp, client_cmp, loaded>>
    /\ UNCHANGED signing_vars /\ UNCHANGED param_vars

\* ClientCredentials.from_dict(saved)
FromDict ==
    /\ saved.done
    /\ loaded' = [done |-> TRUE, cred |-> from_dict(saved.d)]
    /\ UNCHANGED <<app_cred, client_cred, other_app, other_client, app_cmp, client_cmp, saved>>
    /\ UNCHANGED signing_vars /\ UNCHANGED param_vars

NextCred == AppCompare \/ ClientCompare \/ AsDict \/ FromDict

SpecCred == InitCred /\ [][NextCred]_vars

\* ---------------------------------------- canonicalizer: the param string

InitParams ==
    /\ params \in ParamMappings
    /\ pstr = NoParamStrings
    /\ app_cred = AppCredentials(PyNone, PyNone)
    /\ client_cred = ClientCredentials(PyNone, PyNone, PyNone)
    /\ SigningIdle /\ CredIdle

\* _generate_param_string on params and on the same mapping reordered
GenerateParamString ==
    /\ \E q \in Reorderings(params) :
         pstr' = [ done |-> TRUE, reordered |-> q,
                   a |-> _generate_param_string(params),
                   b |-> _generate_param_string(q) ]
    /\ UNCHANGED <<params, app_cred, client_cred>>
    /\ UNCHANGED signing_vars /\ UNCHANGED cred_vars

NextParams == GenerateParamString

SpecParams == InitParams /\ [][NextParams]_vars

\* ------------------------------------------------------ reading strings

\* the places where sep starts in s
Starts(s, sep) ==
    {i \in 1..(Len(s) - Len(sep) + 1) : SubSeq(s, i, i + Len(sep) - 1) = sep}

\* s.split(sep), for a sep that does not overlap itself
Split(s, sep) ==
    LET P == Starts(s, sep)
        n == Cardinality(P)
        at == [k \in 1..n |-> CHOOSE p \in P : Cardinality({q \in P : q < p}) = k - 1]
    IN  [k \in 1..(n + 1) |->
            SubSeq(s, IF k = 1 THEN 1 ELSE at[k - 1] + Len(sep),
                      IF k = n + 1 THEN Len(s) ELSE at[k] - 1)]

\* s cut at its first sep: what is before it and what is after it
Cut(s, sep) ==
    LET P == Starts(s, sep)
        p == IF P = {} THEN Len(s) + 1 ELSE CHOOSE i \in P : \A j \in P : i <= j
    IN  [k |-> SubSeq(s, 1, p - 1), v |-> SubSeq(s, p + Len(sep), Len(s))]

HasPrefix(s, p) == Len(s) >= Len(p) /\ SubSeq(s, 1, Len(p)) = p

\* the key=value pairs of a parameter string
ParamPairs(param_string) ==
    IF param_string = <<>> THEN <<>>
    ELSE LET pieces == Split(param_string, <<"&">>)
         IN  [i \in 1..Len(pieces) |-> Cut(pieces[i], <<"=">>)]

\* the pieces of an Authorization value after "OAuth ", cut at their first =
HeaderPieces(auth) ==
    LET pieces == Split(SubSeq(auth, Len(<<"O", "A", "u", "t", "h", " ">>) + 1, Len(auth)), <<",", " ">>)
    IN  [i \in 1..Len(pieces) |-> Cut(pieces[i], <<"=">>)]

\* text between double quotes, with no double quote in it
IsQuoted(s) ==
    /\ Len(s) >= 2
    /\ s[1] = "\"" /\ s[Len(s)] = "\""
    /\ \A i \in 2..(Len(s) - 1) : s[i] # "\""

\* "OAuth " and then key="value" pieces joined by ", "
HeaderWellFormed(auth) ==
    /\ HasPrefix(auth, <<"O", "A", "u", "t", "h", " ">>)
    /\ \A i \in 1..Len(HeaderPieces(auth)) :
        /\ HeaderPieces(auth)[i].k # <<>>
        /\ IsQuoted(HeaderPieces(auth)[i].v)

\* the header's pairs, each value without its quotes
HeaderPairs(auth) ==
    LET pieces == HeaderPieces(auth)
    IN  [i \in 1..Len(pieces) |->
            [k |-> pieces[i].k, v |-> SubSeq(pieces[i].v, 2, Len(pieces[i].v) - 1)]]

KeysOf(pairs) == [i \in 1..Len(pairs) |-> pairs[i].k]

\* the values a list of pairs holds under a key
ValuesUnder(pairs, key) == {pairs[i].v : i \in {j \in 1..Len(pairs) : pairs[j].k = key}}

Range(seq) == {seq[i] : i \in 1..Len(seq)}

Called == ret.raised # "not called"
Returned == ret.raised = ""

\* ----------------------------------------------------------------- claims

\* C1 (as claimed): in every call that returns, the oauth_nonce and the
\* oauth_timestamp values of the signed parameter string are the values the
\* Authorization header carries under those keys.
C1_NonceAndTimestampSignedAsSent ==
    Returned =>
        \A key \in {<<"o", "a", "u", "t", "h", "_", "n", "o", "n", "c", "e">>, <<"o", "a", "u", "t", "h", "_", "t", "i", "m", "e", "s", "t", "a", "m", "p">>} :
            ValuesUnder(ParamPairs(ret.param_string), key)
                = ValuesUnder(HeaderPairs(ret.headers.Authorization), key)

\* C2 (as claimed): a == b holds exactly when the keys are equal and the
\* secrets are equal.
C2_AppEqualityIsKeyAndSecret ==
    app_cmp.done =>
        (app_cmp.eq <=> (app_cred.key = other_app.key /\ app_cred.secret = other_app.secret))

\* C3 (as claimed): the parameter string that is signed has no
\* oauth_signature entry, and oauth_d has none when it is signed.
C3_NoSignatureInSignedString ==
    (Called /\ ret.param_string # <<>>) =>
        /\ ValuesUnder(ParamPairs(ret.param_string), <<"o", "a", "u", "t", "h", "_", "s", "i", "g", "n", "a", "t", "u", "r", "e">>) = {}
        /\ ~HasKey(ret.signed_d, PyStr(<<"o", "a", "u", "t", "h", "_", "s", "i", "g", "n", "a", "t", "u", "r", "e">>))

EmptyStr == PyStr(<<>>)

HasEmptyField ==
    \/ app_cred.key = EmptyStr \/ app_cred.secret = EmptyStr
    \/ client_cred.token = EmptyStr \/ client_cred.secret = EmptyStr

\* C4 (as claimed): a call with an empty key, secret or token ends in an
\* error and returns no headers.
C4_EmptyCredentialRaises ==
    (Called /\ HasEmptyField) => (ret.raised # "" /\ ret.headers = NoHeaders)

\* nothing but the credentials' emptiness could stop the call: the method is
\* ASCII and every value _quote is given is one it accepts
OtherwiseEncodable ==
    /\ IsAscii(twitter_req.method)
    /\ ~QuoteRaises(twitter_req.url)
    /\ \A v \in {app_cred.key, app_cred.secret, client_cred.token, client_cred.secret} :
        v.t # "none"
    /\ \A i \in 1..Len(twitter_req.params) :
        twitter_req.params[i].k.t # "none" /\ twitter_req.params[i].v.t # "none"
    /\ \A i \in 1..Len(overrides) : overrides[i].v.t # "none"

\* C4 (amended): an empty key, secret or token raises nothing: the call
\* returns a well-formed Authorization header whenever the method is ASCII
\* and _quote accepts every value; an empty key or token is sent as "" (unless
\* overridden) and an empty secret leaves its side of the signing key's &
\* empty.
C4_EmptyCredentialSigns ==
    (Called /\ HasEmptyField /\ OtherwiseEncodable) =>
        /\ Returned
        /\ HeaderWellFormed(ret.headers.Authorization)
        /\ (app_cred.key = EmptyStr /\ ~HasKey(overrides, PyStr(<<"o", "a", "u", "t", "h", "_", "c", "o", "n", "s", "u", "m", "e", "r", "_", "k", "e", "y">>)))
            => ValuesUnder(HeaderPairs(ret.headers.Authorization), <<"o", "a", "u", "t", "h", "_", "c", "o", "n", "s", "u", "m", "e", "r", "_", "k", "e", "y">>) = {<<>>}
        /\ (client_cred.token = EmptyStr /\ ~HasKey(overrides, PyStr(<<"o", "a", "u", "t", "h", "_", "t", "o", "k", "e", "n">>)))
            => ValuesUnder(HeaderPairs(ret.headers.Authorization), <<"o", "a", "u", "t", "h", "_", "t", "o", "k", "e", "n">>) = {<<>>}
        /\ Len(Split(ret.signing_key, <<"&">>)) = 2
        /\ app_cred.secret = EmptyStr => Split(ret.signing_key, <<"&">>)[1] = <<>>
        /\ client_cred.secret = EmptyStr => Split(ret.signing_key, <<"&">>)[2] = <<>>

C4_Witness == Called /\ HasEmptyField /\ Returned

SevenKeys ==
    << <<"o", "a", "u", "t", "h", "_", "c", "o", "n", "s", "u", "m", "e", "r", "_", "k", "e", "y">>, <<"o", "a", "u", "t", "h", "_", "n", "o", "n", "c", "e">>, <<"o", "a", "u", "t", "h", "_", "s", "i", "g", "n", "a", "t", "u", "r", "e">>,
       <<"o", "a", "u", "t", "h", "_", "s", "i", "g", "n", "a", "t", "u", "r", "e", "_", "m", "e", "t", "h", "o", "d">>, <<"o", "a", "u", "t", "h", "_", "t", "i", "m", "e", "s", "t", "a", "m", "p">>, <<"o", "a", "u", "t", "h", "_", "t", "o", "k", "e", "n">>,
       <<"o", "a", "u", "t", "h", "_", "v", "e", "r", "s", "i", "o", "n">> >>

\* C5: with no overrides, a returned Authorization value is "OAuth " and then
\* exactly the seven oauth_* keys, once each, in ascending order, each as
\* key="value", joined by ", ".
C5_HeaderFormat ==
    (Returned /\ overrides = <<>>) =>
        /\ HeaderWellFormed(ret.headers.Authorization)
        /\ KeysOf(HeaderPairs(ret.headers.Authorization)) = SevenKeys
        /\ \A i \in 1..(Len(SevenKeys) - 1) : StrLess(SevenKeys[i], SevenKeys[i + 1])

C5_Witness == Returned /\ overrides = <<>> /\ twitter_req.params # <<>>

\* C6: ClientCredentials are equal exactly when their user ids are, equal
\* ones hash alike, a < b exactly when a's user id is less, and exactly one
\* of a < b, a == b, b < a holds.
C6_ClientOrderByUserId ==
    client_cmp.done =>
        /\ client_cmp.eq <=> (client_cred.user_id = other_client.user_id)
        /\ client_cmp.ne <=> ~client_cmp.eq
        /\ client_cmp.eq => client_cmp.same_hash
        /\ client_cmp.lt <=> (client_cred.user_id.n < other_client.user_id.n)
        /\ client_cmp.lt_rev <=> (other_client.user_id.n < client_cred.user_id.n)
        /\ Cardinality({x \in {"lt", "eq", "lt_rev"} : client_cmp[x]}) = 1

C6_Witness ==
    /\ client_cmp.done /\ client_cmp.eq
    /\ client_cred.token # other_client.token
    /\ client_cred.secret # other_client.secret

FixedNonceAndTimestamp ==
    /\ HasKey(overrides, PyStr(<<"o", "a", "u", "t", "h", "_", "n", "o", "n", "c", "e">>))
    /\ HasKey(overrides, PyStr(<<"o", "a", "u", "t", "h", "_", "t", "i", "m", "e", "s", "t", "a", "m", "p">>))

\* C7: with oauth_nonce and oauth_timestamp both overridden, a further call
\* with the same arguments returns the Authorization header the call before
\* it returned, whatever was drawn and read in each.
C7_SameHeaderUnderFixedNonceAndTimestamp ==
    [][(calls > 0 /\ calls' = calls + 1 /\ FixedNonceAndTimestamp) =>
          /\ ret'.raised = ret.raised
          /\ ret'.headers.Authorization = ret.headers.Authorization]_vars

C7_Witness ==
    /\ calls >= 2 /\ env_changed /\ FixedNonceAndTimestamp /\ Returned
    /\ DictGet(overrides, PyStr(<<"o", "a", "u", "t", "h", "_", "n", "o", "n", "c", "e">>)).s # _generate_nonce(rnd)

\* C8: from_dict(c.as_dict) == c, and it has c's user_id, token and secret.
C8_FromDictRoundTrip ==
    loaded.done =>
        /\ ClientCredentials__eq__(loaded.cred, client_cred)
        /\ loaded.cred.user_id = client_cred.user_id
        /\ loaded.cred.token = client_cred.token
        /\ loaded.cred.secret = client_cred.secret

C8_Witness == loaded.done /\ saved.done /\ client_cred.token # client_cred.secret

\* the keys oauth_d has when the header is built
OAuthDictKeys ==
    {BaseOAuth(app_cred, client_cred, rnd, now)[i].k.s : i \in 1..6}
        \cup {overrides[i].k.s : i \in 1..Len(overrides)}
        \cup {<<"o", "a", "u", "t", "h", "_", "s", "i", "g", "n", "a", "t", "u", "r", "e">>}

\* the value oauth_d holds under a key other than oauth_signature: the
\* override if there is one, else the base entry
OAuthDictValue(key) ==
    IF HasKey(overrides, PyStr(key)) THEN DictGet(overrides, PyStr(key))
    ELSE DictGet(BaseOAuth(app_cred, client_cred, rnd, now), PyStr(key))

HeaderKeysAreOAuthDictKeys ==
    LET pairs == HeaderPairs(ret.headers.Authorization)
    IN  /\ HeaderWellFormed(ret.headers.Authorization)
        /\ Range(KeysOf(pairs)) = OAuthDictKeys
        /\ Len(pairs) = Cardinality(OAuthDictKeys)
        /\ \A key \in OAuthDictKeys \ {<<"o", "a", "u", "t", "h", "_", "s", "i", "g", "n", "a", "t", "u", "r", "e">>} :
            ValuesUnder(pairs, key) = {_quote(OAuthDictValue(key))}

\* C9 (as claimed): the header's keys are exactly oauth_d's, a request
\* parameter adds no key and replaces no value, and every key of the header
\* starts with oauth_.
C9_HeaderKeysStartWithOAuth ==
    Returned =>
        /\ HeaderKeysAreOAuthDictKeys
        /\ \A key \in Range(KeysOf(HeaderPairs(ret.headers.Authorization))) :
            HasPrefix(key, <<"o", "a", "u", "t", "h", "_">>)

\* C9 (amended): the header's keys are exactly oauth_d's (the six base keys,
\* the override keys, oauth_signature), each once; a request parameter adds
\* no key and replaces no value; every key starts with oauth_ when every
\* override key does.
C9_HeaderKeysAreOAuthDictKeys ==
    Returned =>
        /\ HeaderKeysAreOAuthDictKeys
        /\ (\A i \in 1..Len(overrides) : HasPrefix(overrides[i].k.s, <<"o", "a", "u", "t", "h", "_">>))
            => \A key \in Range(KeysOf(HeaderPairs(ret.headers.Authorization))) :
                    HasPrefix(key, <<"o", "a", "u", "t", "h", "_">>)

C9_Witness ==
    /\ Returned
    /\ \E i \in 1..Len(twitter_req.params) : twitter_req.params[i].k.s \in OAuthDictKeys
    /\ \E i \in 1..Len(twitter_req.params) :
        _quote(twitter_req.params[i].v)
            \notin ValuesUnder(HeaderPairs(ret.headers.Authorization), twitter_req.params[i].k.s)

\* C10 (as claimed): the parameter string has one encodedKey=encodedValue
\* pair for each entry of the mapping, in ascending order of encoded key,
\* and is the same in every insertion order of the mapping.
C10_ParamStringSortedAndOrderFree ==
    pstr.done =>
        LET pairs == ParamPairs(pstr.a)
        IN  /\ Len(pairs) = Len(params)
            /\ Range(pairs) = {[k |-> _quote(params[i].k), v |-> _quote(params[i].v)] :
                                  i \in 1..Len(params)}
            /\ \A i \in 1..(Len(pairs) - 1) : StrLess(pairs[i].k, pairs[i + 1].k)
            /\ pstr.a = pstr.b

====
